---- MODULE Spec2Model ----
(***************************************************************************)
(* Model of wherehows-web/app/constants/metadata-acquisition.ts: the       *)
(* tables the module builds when it is loaded (one step per top-level      *)
(* const, in source order) and the functions it exports.                   *)
(*                                                                         *)
(* A string is a sequence of one-character strings, so that the regular    *)
(* expression replacements, capitalize and the default Array sort can be   *)
(* modelled character by character.  A JavaScript object used as a map is  *)
(* a sequence of [key, value] records in property (insertion) order; all   *)
(* keys here are non-numeric names, for which property order is insertion  *)
(* order.                                                                  *)
(***************************************************************************)
EXTENDS Integers, Sequences, FiniteSets, TLC

VARIABLES
  customIdLogicalTypes,                  \* imported enumeration
  idLogicalTypes,                        \* imported enumeration
  genericLogicalTypes,                   \* imported enumeration
  idFieldDataTypeClassification,
  nonIdFieldDataTypeClassification,
  defaultFieldDataTypeClassification,
  classifiers,
  securityClassificationDropdownOptions,
  logicalTypesForIds,
  logicalTypesForGeneric,
  pc,                                    \* next top-level statement to run
  call,                                  \* last call of an exported predicate
  fmt                                    \* a string and its successive formattings

imports == <<customIdLogicalTypes, idLogicalTypes, genericLogicalTypes>>
maps == <<idFieldDataTypeClassification, nonIdFieldDataTypeClassification,
          defaultFieldDataTypeClassification>>
lists == <<logicalTypesForIds, logicalTypesForGeneric>>
vars == <<imports, maps, classifiers, securityClassificationDropdownOptions,
          lists, pc, call, fmt>>

----------------------------------------------------------------------------
(* Bounds of the model *)

\* longest imported enumeration
MaxEnum == 2
\* total number of characters of the names of a generated idLogicalTypes
MaxTotalLen == 5
\* longest string handed to formatAsCapitalizedStringWithSpaces
MaxStrLen == 4
\* how many times in a row the result is formatted again
MaxApply == 2

----------------------------------------------------------------------------
(* Characters and strings *)

\* The characters used, in ascending order of their UTF-16 code unit.
Chars == <<" ", ".", "/",
           "A", "B", "C", "D", "E", "F", "G", "H", "I", "J", "K", "L", "M",
           "N", "O", "P", "Q", "R", "S", "T", "U", "V", "W", "X", "Y", "Z",
           "_",
           "a", "b", "c", "d", "e", "f", "g", "h", "i", "j", "k", "l", "m",
           "n", "o", "p", "q", "r", "s", "t", "u", "v", "w", "x", "y", "z">>

Code(c) == CHOOSE i \in 1..Len(Chars) : Chars[i] = c

IsUpper(c) == Code(c) \in Code("A")..Code("Z")
IsLower(c) == Code(c) \in Code("a")..Code("z")

toUpperCaseChar(c) == IF IsLower(c) THEN Chars[Code(c) - (Code("a") - Code("A"))] ELSE c
toLowerCaseChar(c) == IF IsUpper(c) THEN Chars[Code(c) + (Code("a") - Code("A"))] ELSE c

\* String.prototype.toLowerCase
toLowerCase(s) == [i \in 1..Len(s) |-> toLowerCaseChar(s[i])]

\* capitalize of @ember/string: replace(/(^|\/)([a-z])/g, toUpperCase)
capitalize(s) ==
  [i \in 1..Len(s) |->
     IF IsLower(s[i]) /\ (i = 1 \/ s[i - 1] = "/") THEN toUpperCaseChar(s[i]) ELSE s[i]]

\* a < b for two strings, as the default comparison of Array.prototype.sort
\* orders them: by code unit at the first difference, a proper prefix first
LexLess(a, b) ==
  \E i \in 1..Len(b) :
    /\ \A j \in 1..(i - 1) : j <= Len(a) /\ a[j] = b[j]
    /\ (i > Len(a) \/ Code(a[i]) < Code(b[i]))

RECURSIVE Flatten(_)
Flatten(ss) == IF ss = <<>> THEN <<>> ELSE Head(ss) \o Flatten(Tail(ss))

Range(s) == {s[i] : i \in 1..Len(s)}

\* all sequences over S of length at most n
SeqsUpTo(S, n) == UNION {[1..k -> S] : k \in 0..n}

----------------------------------------------------------------------------
(* Imports from wherehows-web/constants/datasets/compliance *)

confidential == <<"c","o","n","f","i","d","e","n","t","i","a","l">>
limitedDistribution ==
  <<"l","i","m","i","t","e","d","D","i","s","t","r","i","b","u","t","i","o","n">>
highlyConfidential ==
  <<"h","i","g","h","l","y","C","o","n","f","i","d","e","n","t","i","a","l">>

Classification ==
  [Confidential |-> confidential,
   LimitedDistribution |-> limitedDistribution,
   HighlyConfidential |-> highlyConfidential]

ID == <<"I","D">>
IP_ADDRESS == <<"I","P","_","A","D","D","R","E","S","S">>
NAME == <<"N","A","M","E">>
EMAIL == <<"E","M","A","I","L">>

\* the logical type names an enumeration may list
LogicalTypeNames == {ID, IP_ADDRESS, NAME, EMAIL}

\* the per-type registry: classification and display name of a logical type
nonIdFieldLogicalTypes ==
  [n \in LogicalTypeNames |->
     CASE n = NAME  -> [classification |-> Classification.Confidential,
                        displayAs |-> <<"N","a","m","e">>]
       [] n = EMAIL -> [classification |-> Classification.Confidential,
                        displayAs |-> <<"E","m","a","i","l">>]
       [] n = ID    -> [classification |-> Classification.LimitedDistribution,
                        displayAs |-> <<"I","d">>]
       [] n = IP_ADDRESS ->
                       [classification |-> Classification.HighlyConfidential,
                        displayAs |-> <<"I","P"," ","A","d","d","r","e","s","s">>]]

fieldIdentifierTypes ==
  [generic |-> [value |-> "generic"], custom |-> [value |-> "custom"]]

\* identifier type strings handed to the exported predicates
IdentifierTypes == {"none", "member", "urn", "generic", "custom"}

\* an enumeration: at most MaxEnum names, none listed twice
Enumerations ==
  {e \in SeqsUpTo(LogicalTypeNames, MaxEnum) :
     \A i, j \in 1..Len(e) : i # j => e[i] # e[j]}

----------------------------------------------------------------------------
(* Objects as ordered maps *)

Keys(m) == {m[i].key : i \in 1..Len(m)}

\* Object.assign(m, {[k]: v}): an own property keeps its place, a new one is last
Assign(m, k, v) ==
  IF k \in Keys(m)
    THEN [i \in 1..Len(m) |-> IF m[i].key = k THEN [key |-> k, value |-> v] ELSE m[i]]
    ELSE Append(m, [key |-> k, value |-> v])

\* Object.values(m)
ObjectValues(m) == [i \in 1..Len(m) |-> m[i].value]

\* {...a, ...b}
RECURSIVE Spread(_, _)
Spread(a, b) ==
  IF b = <<>> THEN a ELSE Spread(Assign(a, Head(b).key, Head(b).value), Tail(b))

----------------------------------------------------------------------------
(* The tables built at module load *)

\* [...].reduce((classification, idLogicalType) =>
\*   Object.assign(classification, {[idLogicalType]: LimitedDistribution}), {})
RECURSIVE ReduceIdLogicalTypes(_, _)
ReduceIdLogicalTypes(classification, types) ==
  IF types = <<>> THEN classification
  ELSE ReduceIdLogicalTypes(
         Assign(classification, Head(types), Classification.LimitedDistribution),
         Tail(types))

\* genericLogicalTypes.reduce((classification, logicalType) =>
\*   Object.assign(classification,
\*                 {[logicalType]: nonIdFieldLogicalTypes[logicalType].classification}), {})
RECURSIVE ReduceGenericLogicalTypes(_, _)
ReduceGenericLogicalTypes(classification, types) ==
  IF types = <<>> THEN classification
  ELSE ReduceGenericLogicalTypes(
         Assign(classification, Head(types),
                nonIdFieldLogicalTypes[Head(types)].classification),
         Tail(types))

\* iter.indexOf(x), for an x that occurs in iter
IndexOf(iter, x) ==
  CHOOSE i \in 1..Len(iter) : iter[i] = x /\ \A j \in 1..(i - 1) : iter[j] # x

\* FilterFirstIndex with the filter left out: every value from index on is kept
FilterFirstIndex_KeepAll(iter, index) == SubSeq(iter, index, Len(iter))

\* iter.filter((classifier, index, iter) => iter.indexOf(classifier) === index)
RECURSIVE FilterFirstIndex(_, _)
FilterFirstIndex(iter, index) ==
  IF index > Len(iter) THEN <<>>
  ELSE (IF IndexOf(iter, iter[index]) = index THEN <<iter[index]>> ELSE <<>>)
       \o FilterFirstIndex(iter, index + 1)

\* InsertSorted with the comparison the wrong way round
InsertSorted_Descending(sorted, x) ==
  LET k == Cardinality({i \in 1..Len(sorted) : ~LexLess(sorted[i], x)})
  IN SubSeq(sorted, 1, k) \o <<x>> \o SubSeq(sorted, k + 1, Len(sorted))

\* the place of x in an ascending list: after every element not greater than x
InsertSorted(sorted, x) ==
  LET k == Cardinality({i \in 1..Len(sorted) : ~LexLess(x, sorted[i])})
  IN SubSeq(sorted, 1, k) \o <<x>> \o SubSeq(sorted, k + 1, Len(sorted))

\* the contents of an array of strings after Array.prototype.sort() without a
\* comparison function
RECURSIVE Sort(_)
Sort(array) ==
  IF array = <<>> THEN <<>>
  ELSE InsertSorted(Sort(SubSeq(array, 1, Len(array) - 1)), array[Len(array)])

\* string.replace(/[A-Z]/g, match => ` ${match}`)
SpaceBeforeCapitals(string) ==
  Flatten([i \in 1..Len(string) |->
             IF IsUpper(string[i]) THEN <<" ", string[i]>> ELSE <<string[i]>>])

\* formatAsCapitalizedStringWithSpaces with a space inserted only where none is yet
formatAsCapitalizedStringWithSpaces_Once(string) ==
  capitalize(Flatten([i \in 1..Len(string) |->
                        IF IsUpper(string[i]) /\ i > 1 /\ string[i - 1] # " "
                          THEN <<" ", string[i]>> ELSE <<string[i]>>]))

formatAsCapitalizedStringWithSpaces(string) == capitalize(SpaceBeforeCapitals(string))

\* value => ({value, label: value ? formatAsCapitalizedStringWithSpaces(value) : '...'})
SecurityClassificationOption(value) ==
  [value |-> value,
   label |-> IF value # <<>> THEN formatAsCapitalizedStringWithSpaces(value)
             ELSE <<".", ".", ".">>]

\* value.replace(/_/g, ' ')
UnderscoresToSpaces(value) ==
  [i \in 1..Len(value) |-> IF value[i] = "_" THEN " " ELSE value[i]]

\* the number of consecutive upper-case letters of s from position i on
RECURSIVE UpperCaseAhead(_, _)
UpperCaseAhead(s, i) ==
  IF i > Len(s) \/ ~IsUpper(s[i]) THEN 0 ELSE 1 + UpperCaseAhead(s, i + 1)

\* CapitalizeUpperCaseRuns with {2,} for {3,}
RECURSIVE CapitalizeUpperCaseRuns_TwoOrMore(_, _)
CapitalizeUpperCaseRuns_TwoOrMore(s, i) ==
  IF i > Len(s) THEN <<>>
  ELSE LET n == UpperCaseAhead(s, i) IN
       IF n >= 2
         THEN capitalize(toLowerCase(SubSeq(s, i, i + n - 1)))
              \o CapitalizeUpperCaseRuns_TwoOrMore(s, i + n)
         ELSE <<s[i]>> \o CapitalizeUpperCaseRuns_TwoOrMore(s, i + 1)

\* s.replace(/([A-Z]{3,})/g, value => capitalize(value.toLowerCase())) from
\* position i on: the greedy match at i, or else the character at i kept
RECURSIVE CapitalizeUpperCaseRuns(_, _)
CapitalizeUpperCaseRuns(s, i) ==
  IF i > Len(s) THEN <<>>
  ELSE LET n == UpperCaseAhead(s, i) IN
       IF n >= 3
         THEN capitalize(toLowerCase(SubSeq(s, i, i + n - 1)))
              \o CapitalizeUpperCaseRuns(s, i + n)
         ELSE <<s[i]>> \o CapitalizeUpperCaseRuns(s, i + 1)

\* the label of an id logical type
IdLogicalTypeLabel(value) == CapitalizeUpperCaseRuns(UnderscoresToSpaces(value), 1)

logicalTypeValueLabel(logicalType) ==
  LET logicalTypes == IF logicalType = "id" THEN idLogicalTypes ELSE genericLogicalTypes
  IN [i \in 1..Len(logicalTypes) |->
        [value |-> logicalTypes[i],
         label |-> IF logicalType = "generic"
                     THEN nonIdFieldLogicalTypes[logicalTypes[i]].displayAs
                     ELSE IdLogicalTypeLabel(logicalTypes[i])]]

----------------------------------------------------------------------------
(* The exported predicates *)

undefined == "undefined"

isMixedId(identifierType) == identifierType = fieldIdentifierTypes.generic.value

isCustomId(identifierType) == identifierType = fieldIdentifierTypes.custom.value

\* hasPredefinedFieldFormat without the custom id case
hasPredefinedFieldFormat_MixedOnly(identifierType) == isMixedId(identifierType)

hasPredefinedFieldFormat(identifierType) ==
  isMixedId(identifierType) \/ isCustomId(identifierType)

\* getDefaultLogicalType guarded by hasPredefinedFieldFormat in place of isMixedId
getDefaultLogicalType_AnyPredefined(identifierType) ==
  IF hasPredefinedFieldFormat(identifierType) THEN "URN" ELSE undefined

getDefaultLogicalType(identifierType) ==
  IF isMixedId(identifierType) THEN "URN" ELSE undefined

----------------------------------------------------------------------------
(* Initial states *)

NoCall == [fn |-> "none"]

NotLoaded ==
  /\ idFieldDataTypeClassification = <<>>
  /\ nonIdFieldDataTypeClassification = <<>>
  /\ defaultFieldDataTypeClassification = <<>>
  /\ classifiers = <<>>
  /\ securityClassificationDropdownOptions = <<>>
  /\ logicalTypesForIds = <<>>
  /\ logicalTypesForGeneric = <<>>
  /\ pc = "idFieldDataTypeClassification"
  /\ call = NoCall
  /\ fmt = <<>>

\* any three enumerations
InitAny ==
  /\ customIdLogicalTypes \in Enumerations
  /\ idLogicalTypes \in Enumerations
  /\ genericLogicalTypes \in Enumerations
  /\ NotLoaded

\* no name is listed by two of the enumerations
DisjointEnumerations ==
  /\ Range(customIdLogicalTypes) \cap Range(idLogicalTypes) = {}
  /\ Range(customIdLogicalTypes) \cap Range(genericLogicalTypes) = {}
  /\ Range(idLogicalTypes) \cap Range(genericLogicalTypes) = {}

\* the enumerations as the compliance constants supply them: disjoint
Init == InitAny /\ DisjointEnumerations

----------------------------------------------------------------------------
(* Module load: one step per top-level const, in source order *)

\* LoadIdFieldDataTypeClassification reducing over the generic types as well
LoadIdFieldDataTypeClassification_AllTypes ==
  /\ pc = "idFieldDataTypeClassification"
  /\ idFieldDataTypeClassification' =
       ReduceIdLogicalTypes(
         <<>>, customIdLogicalTypes \o idLogicalTypes \o genericLogicalTypes)
  /\ pc' = "nonIdFieldDataTypeClassification"
  /\ UNCHANGED <<imports, nonIdFieldDataTypeClassification,
                 defaultFieldDataTypeClassification, classifiers,
                 securityClassificationDropdownOptions, lists, call, fmt>>

\* LoadIdFieldDataTypeClassification without the custom id types
LoadIdFieldDataTypeClassification_NoCustomIds ==
  /\ pc = "idFieldDataTypeClassification"
  /\ idFieldDataTypeClassification' = ReduceIdLogicalTypes(<<>>, idLogicalTypes)
  /\ pc' = "nonIdFieldDataTypeClassification"
  /\ UNCHANGED <<imports, nonIdFieldDataTypeClassification,
                 defaultFieldDataTypeClassification, classifiers,
                 securityClassificationDropdownOptions, lists, call, fmt>>

LoadIdFieldDataTypeClassification ==
  /\ pc = "idFieldDataTypeClassification"
  /\ idFieldDataTypeClassification' =
       ReduceIdLogicalTypes(<<>>, customIdLogicalTypes \o idLogicalTypes)
  /\ pc' = "nonIdFieldDataTypeClassification"
  /\ UNCHANGED <<imports, nonIdFieldDataTypeClassification,
                 defaultFieldDataTypeClassification, classifiers,
                 securityClassificationDropdownOptions, lists, call, fmt>>

LoadNonIdFieldDataTypeClassification ==
  /\ pc = "nonIdFieldDataTypeClassification"
  /\ nonIdFieldDataTypeClassification' =
       ReduceGenericLogicalTypes(<<>>, genericLogicalTypes)
  /\ pc' = "defaultFieldDataTypeClassification"
  /\ UNCHANGED <<imports, idFieldDataTypeClassification,
                 defaultFieldDataTypeClassification, classifiers,
                 securityClassificationDropdownOptions, lists, call, fmt>>

\* LoadDefaultFieldDataTypeClassification spreading the id entries last
LoadDefaultFieldDataTypeClassification_IdLast ==
  /\ pc = "defaultFieldDataTypeClassification"
  /\ defaultFieldDataTypeClassification' =
       Spread(Spread(<<>>, nonIdFieldDataTypeClassification),
              idFieldDataTypeClassification)
  /\ pc' = "classifiers"
  /\ UNCHANGED <<imports, idFieldDataTypeClassification,
                 nonIdFieldDataTypeClassification, classifiers,
                 securityClassificationDropdownOptions, lists, call, fmt>>

LoadDefaultFieldDataTypeClassification ==
  /\ pc = "defaultFieldDataTypeClassification"
  /\ defaultFieldDataTypeClassification' =
       Spread(Spread(<<>>, idFieldDataTypeClassification),
              nonIdFieldDataTypeClassification)
  /\ pc' = "classifiers"
  /\ UNCHANGED <<imports, idFieldDataTypeClassification,
                 nonIdFieldDataTypeClassification, classifiers,
                 securityClassificationDropdownOptions, lists, call, fmt>>

LoadClassifiers ==
  /\ pc = "classifiers"
  /\ classifiers' =
       FilterFirstIndex(ObjectValues(defaultFieldDataTypeClassification), 1)
  /\ pc' = "securityClassificationDropdownOptions"
  /\ UNCHANGED <<imports, maps, securityClassificationDropdownOptions, lists,
                 call, fmt>>

\* ['', ...classifiers.sort()].map(...): sort() orders the classifiers array
\* itself and returns it
LoadSecurityClassificationDropdownOptions ==
  /\ pc = "securityClassificationDropdownOptions"
  /\ LET sorted == Sort(classifiers)
         values == <<<<>>>> \o sorted
     IN /\ classifiers' = sorted
        /\ securityClassificationDropdownOptions' =
             [i \in 1..Len(values) |-> SecurityClassificationOption(values[i])]
  /\ pc' = "logicalTypesForIds"
  /\ UNCHANGED <<imports, maps, lists, call, fmt>>

LoadLogicalTypesForIds ==
  /\ pc = "logicalTypesForIds"
  /\ logicalTypesForIds' = logicalTypeValueLabel("id")
  /\ pc' = "logicalTypesForGeneric"
  /\ UNCHANGED <<imports, maps, classifiers, securityClassificationDropdownOptions,
                 logicalTypesForGeneric, call, fmt>>

LoadLogicalTypesForGeneric ==
  /\ pc = "logicalTypesForGeneric"
  /\ logicalTypesForGeneric' = logicalTypeValueLabel("generic")
  /\ pc' = "loaded"
  /\ UNCHANGED <<imports, maps, classifiers, securityClassificationDropdownOptions,
                 logicalTypesForIds, call, fmt>>

Load ==
  \/ LoadIdFieldDataTypeClassification
  \/ LoadNonIdFieldDataTypeClassification
  \/ LoadDefaultFieldDataTypeClassification
  \/ LoadClassifiers
  \/ LoadSecurityClassificationDropdownOptions
  \/ LoadLogicalTypesForIds
  \/ LoadLogicalTypesForGeneric

----------------------------------------------------------------------------
(* Calls of the exported predicates, once the module is loaded *)

Returns(fn, arg, ret) ==
  /\ pc = "loaded"
  /\ call' = [fn |-> fn, arg |-> arg, ret |-> ret]
  /\ UNCHANGED <<imports, maps, classifiers, securityClassificationDropdownOptions,
                 lists, pc, fmt>>

CallIsMixedId ==
  \E t \in IdentifierTypes : Returns("isMixedId", t, isMixedId(t))

CallIsCustomId ==
  \E t \in IdentifierTypes : Returns("isCustomId", t, isCustomId(t))

CallHasPredefinedFieldFormat ==
  \E t \in IdentifierTypes :
    Returns("hasPredefinedFieldFormat", t, hasPredefinedFieldFormat(t))

CallGetDefaultLogicalType ==
  \E t \in IdentifierTypes :
    Returns("getDefaultLogicalType", t, getDefaultLogicalType(t))

Next ==
  \/ Load
  \/ CallIsMixedId
  \/ CallIsCustomId
  \/ CallHasPredefinedFieldFormat
  \/ CallGetDefaultLogicalType

\* the module with the enumerations the compliance constants supply
Spec == Init /\ [][Next]_vars

\* the module load with any enumerations
SpecAny == InitAny /\ [][Load]_vars

----------------------------------------------------------------------------
(* logicalTypeValueLabel over generated names *)

\* the characters of a generated id logical type name
IdNameChars == {"A", "B", "_"}

\* every list of non-empty names over IdNameChars with at most n characters in all
RECURSIVE NameListsWithin(_)
NameListsWithin(n) ==
  {<<>>} \cup
  UNION {{<<name>> \o rest : name \in [1..k -> IdNameChars],
                             rest \in NameListsWithin(n - k)} : k \in 1..n}

InitGeneratedIds ==
  /\ customIdLogicalTypes = <<>>
  /\ idLogicalTypes \in NameListsWithin(MaxTotalLen)
  /\ genericLogicalTypes = <<>>
  /\ NotLoaded

\* the module load with the supplied enumerations or with generated id names
SpecLabel == (Init \/ InitGeneratedIds) /\ [][Load]_vars

----------------------------------------------------------------------------
(* formatAsCapitalizedStringWithSpaces applied to a string, and to its result *)

FormatChars == {"a", "b", "A", "B", " "}

InitFormat ==
  /\ customIdLogicalTypes = <<>>
  /\ idLogicalTypes = <<>>
  /\ genericLogicalTypes = <<>>
  /\ idFieldDataTypeClassification = <<>>
  /\ nonIdFieldDataTypeClassification = <<>>
  /\ defaultFieldDataTypeClassification = <<>>
  /\ classifiers = <<>>
  /\ securityClassificationDropdownOptions = <<>>
  /\ logicalTypesForIds = <<>>
  /\ logicalTypesForGeneric = <<>>
  /\ pc = "idFieldDataTypeClassification"
  /\ call = NoCall
  /\ \E s \in SeqsUpTo(FormatChars, MaxStrLen) : fmt = <<s>>

CallFormatAsCapitalizedStringWithSpaces ==
  /\ pc = "loaded"
  /\ Len(fmt) \in 1..MaxApply
  /\ fmt' = Append(fmt, formatAsCapitalizedStringWithSpaces(fmt[Len(fmt)]))
  /\ UNCHANGED <<imports, maps, classifiers, securityClassificationDropdownOptions,
                 lists, pc, call>>

NextFormat == Load \/ CallFormatAsCapitalizedStringWithSpaces

SpecFormat == InitFormat /\ [][NextFormat]_vars

----------------------------------------------------------------------------
(* Properties *)

DefaultBuilt ==
  pc \notin {"idFieldDataTypeClassification", "nonIdFieldDataTypeClassification",
             "defaultFieldDataTypeClassification"}

DropdownBuilt == pc \in {"logicalTypesForIds", "logicalTypesForGeneric", "loaded"}

\* m[k], for a key k of the map
Get(m, k) == LET i == CHOOSE i \in 1..Len(m) : m[i].key = k IN m[i].value

IdNames == Range(customIdLogicalTypes) \cup Range(idLogicalTypes)
GenericNames == Range(genericLogicalTypes)

\* the distinct classification values of the merged map
DistinctClassifications ==
  {defaultFieldDataTypeClassification[i].value :
     i \in 1..Len(defaultFieldDataTypeClassification)}

\* the distinct values of the merged map in order of first occurrence
FirstSeenClassifications ==
  LET values == ObjectValues(defaultFieldDataTypeClassification)
      firsts == {i \in 1..Len(values) : \A j \in 1..(i - 1) : values[j] # values[i]}
      Nth(n) == CHOOSE i \in firsts : Cardinality({j \in firsts : j < i}) = n - 1
  IN [n \in 1..Cardinality(firsts) |-> values[Nth(n)]]

\* C1: the dropdown options are the sentinel {value: '', label: '...'} followed
\* by exactly one entry per distinct classification value of the merged map, so
\* their number is the number of distinct values plus one, and no entry after
\* the sentinel has an empty value.
C1_OneOptionPerClassifier ==
  DropdownBuilt =>
    LET options == securityClassificationDropdownOptions IN
    /\ Len(options) = Cardinality(DistinctClassifications) + 1
    /\ options[1] = [value |-> <<>>, label |-> <<".", ".", ".">>]
    /\ \A i \in 2..Len(options) : options[i].value # <<>>
    /\ \A c \in DistinctClassifications :
         Cardinality({i \in 2..Len(options) : options[i].value = c}) = 1

\* C1 witness: four keys carrying three distinct classifications, options built
C1_Witness ==
  /\ DropdownBuilt
  /\ Len(defaultFieldDataTypeClassification) = 4
  /\ Cardinality(DistinctClassifications) = 3
  /\ Len(securityClassificationDropdownOptions) = 4

\* C2: after the sentinel the dropdown options are in strictly ascending
\* lexicographic order of their value, whatever the order of first occurrence.
C2_OptionsAscending ==
  DropdownBuilt =>
    LET options == securityClassificationDropdownOptions IN
    \A i, j \in 2..Len(options) :
      i < j => LexLess(options[i].value, options[j].value)

\* C2 witness: three classifications whose order of first occurrence is not ascending
C2_Witness ==
  /\ DropdownBuilt
  /\ Len(FirstSeenClassifications) = 3
  /\ LexLess(FirstSeenClassifications[2], FirstSeenClassifications[1])
  /\ LexLess(FirstSeenClassifications[3], FirstSeenClassifications[2])

\* C3: with the enumerations the compliance constants supply, every key of
\* defaultFieldDataTypeClassification is a key of exactly one of
\* idFieldDataTypeClassification and nonIdFieldDataTypeClassification.
C3_KeyInExactlyOneSource ==
  DefaultBuilt =>
    \A k \in Keys(defaultFieldDataTypeClassification) :
      (k \in Keys(idFieldDataTypeClassification))
        # (k \in Keys(nonIdFieldDataTypeClassification))

\* C3 witness: a merged map with keys from both source maps
C3_Witness ==
  /\ DefaultBuilt
  /\ Keys(idFieldDataTypeClassification) # {}
  /\ Keys(nonIdFieldDataTypeClassification) # {}
  /\ Len(defaultFieldDataTypeClassification) = 4

\* C4: getDefaultLogicalType returns 'URN' exactly for the generic identifier
\* category constant, and no value for every other identifier type.
C4_DefaultLogicalTypeOnlyForMixedId ==
  call.fn = "getDefaultLogicalType" =>
    /\ (call.ret = "URN") <=> (call.arg = fieldIdentifierTypes.generic.value)
    /\ call.arg # fieldIdentifierTypes.generic.value => call.ret = undefined

\* C4 witness: the call for the generic constant has returned 'URN'
C4_Witness ==
  /\ call.fn = "getDefaultLogicalType"
  /\ call.arg = fieldIdentifierTypes.generic.value
  /\ call.ret = "URN"

\* C5: hasPredefinedFieldFormat is true exactly for the generic and the custom
\* identifier category constants; isMixedId is true exactly for the former and
\* isCustomId exactly for the latter.
C5_PredefinedFormatIffMixedOrCustom ==
  /\ call.fn = "hasPredefinedFieldFormat" =>
       call.ret = (call.arg \in {fieldIdentifierTypes.generic.value,
                                  fieldIdentifierTypes.custom.value})
  /\ call.fn = "isMixedId" =>
       call.ret = (call.arg = fieldIdentifierTypes.generic.value)
  /\ call.fn = "isCustomId" =>
       call.ret = (call.arg = fieldIdentifierTypes.custom.value)

\* C5 witness: the call for the custom constant has returned true
C5_Witness ==
  /\ call.fn = "hasPredefinedFieldFormat"
  /\ call.arg = fieldIdentifierTypes.custom.value
  /\ call.ret = TRUE

\* first and last position of the maximal run of upper-case letters around i
RunStart(s, i) ==
  CHOOSE a \in 1..i :
    /\ \A k \in a..i : IsUpper(s[k])
    /\ a = 1 \/ ~IsUpper(s[a - 1])
RunEnd(s, i) ==
  CHOOSE b \in i..Len(s) :
    /\ \A k \in i..b : IsUpper(s[k])
    /\ b = Len(s) \/ ~IsUpper(s[b + 1])

\* the label the claim describes for an id logical type name
ExpectedIdLabel(raw) ==
  [i \in 1..Len(raw) |->
     IF raw[i] = "_" THEN " "
     ELSE IF /\ IsUpper(raw[i])
             /\ RunEnd(raw, i) - RunStart(raw, i) + 1 >= 3
             /\ i # RunStart(raw, i)
            THEN toLowerCaseChar(raw[i])
            ELSE raw[i]]

\* C6: logicalTypesForIds and logicalTypesForGeneric have the length and order
\* of idLogicalTypes and genericLogicalTypes; a generic label is the registered
\* displayAs; an id label is the name with every underscore replaced by a space
\* and every maximal run of three or more upper-case letters lower-cased except
\* its first letter, shorter runs unchanged.
C6_LabelsFollowEnumerations ==
  pc = "loaded" =>
    /\ Len(logicalTypesForIds) = Len(idLogicalTypes)
    /\ \A i \in 1..Len(idLogicalTypes) :
         /\ logicalTypesForIds[i].value = idLogicalTypes[i]
         /\ logicalTypesForIds[i].label = ExpectedIdLabel(idLogicalTypes[i])
    /\ Len(logicalTypesForGeneric) = Len(genericLogicalTypes)
    /\ \A i \in 1..Len(genericLogicalTypes) :
         /\ logicalTypesForGeneric[i].value = genericLogicalTypes[i]
         /\ logicalTypesForGeneric[i].label =
              nonIdFieldLogicalTypes[genericLogicalTypes[i]].displayAs

\* C6 witness: id names with an underscore, a short and a long run, and two
\* generic names, all labelled
C6_Witness ==
  /\ pc = "loaded"
  /\ idLogicalTypes = <<IP_ADDRESS, ID>>
  /\ Len(genericLogicalTypes) = 2
  /\ logicalTypesForIds[1].label = <<"I","P"," ","A","d","d","r","e","s","s">>
  /\ logicalTypesForIds[2].label = <<"I","D">>

CamelCase(s) ==
  /\ Len(s) >= 1
  /\ IsLower(s[1])
  /\ \A i \in 1..Len(s) : IsLower(s[i]) \/ IsUpper(s[i])

NoDoubleSpace(s) == \A i \in 1..(Len(s) - 1) : ~(s[i] = " " /\ s[i + 1] = " ")

\* s with every space written twice
DoubleSpaces(s) ==
  Flatten([i \in 1..Len(s) |-> IF s[i] = " " THEN <<" ", " ">> ELSE <<s[i]>>])

FormattedTwice == Len(fmt) >= 3 /\ CamelCase(fmt[1])

\* C7 as stated: formatting the formatted camelCase string again changes
\* nothing: no leading space, no two consecutive spaces, the capitalized first
\* letter still first.
C7_FormatTwiceIsIdempotent ==
  FormattedTwice =>
    /\ fmt[3] = fmt[2]
    /\ fmt[3][1] = toUpperCaseChar(fmt[1][1])
    /\ NoDoubleSpace(fmt[3])

\* C7 amended: one application to a camelCase string gives the capitalized
\* first letter first and no two consecutive spaces; a second application
\* inserts the spaces again: its result is a space followed by the first result
\* with every space doubled, so it differs from the first result and the
\* capitalized first letter is its second character.
C7_FormatTwiceInsertsSpacesAgain ==
  FormattedTwice =>
    /\ fmt[2][1] = toUpperCaseChar(fmt[1][1])
    /\ NoDoubleSpace(fmt[2])
    /\ fmt[3] = <<" ">> \o DoubleSpaces(fmt[2])
    /\ fmt[3] # fmt[2]
    /\ fmt[3][2] = toUpperCaseChar(fmt[1][1])

\* C7 witness: a camelCase string with an inner capital, formatted twice
C7_Witness ==
  /\ Len(fmt) = 3
  /\ CamelCase(fmt[1])
  /\ \E i \in 2..Len(fmt[1]) : IsUpper(fmt[1][i])

\* C8 as stated: the merged map gives every custom id and id name
\* LimitedDistribution and every generic name its declared classification,
\* whatever the enumerations.
C8_IdNamesKeepLimitedDistribution ==
  DefaultBuilt =>
    /\ \A n \in IdNames :
         Get(defaultFieldDataTypeClassification, n)
           = Classification.LimitedDistribution
    /\ \A n \in GenericNames :
         Get(defaultFieldDataTypeClassification, n)
           = nonIdFieldLogicalTypes[n].classification

\* C8 amended: the merged map gives every generic name its declared
\* classification, and every custom id and id name that is not also a generic
\* name LimitedDistribution: for a name in both, the non-ID entry wins.
C8_NonIdEntryWinsOnSharedName ==
  DefaultBuilt =>
    /\ \A n \in GenericNames :
         Get(defaultFieldDataTypeClassification, n)
           = nonIdFieldLogicalTypes[n].classification
    /\ \A n \in IdNames \ GenericNames :
         Get(defaultFieldDataTypeClassification, n)
           = Classification.LimitedDistribution

\* C8 witness: a merged map with a name that is an id type and a generic type
\* declared otherwise than LimitedDistribution, and a name that is only an id type
C8_Witness ==
  /\ DefaultBuilt
  /\ \E n \in IdNames \cap GenericNames :
       nonIdFieldLogicalTypes[n].classification # Classification.LimitedDistribution
  /\ IdNames \ GenericNames # {}

\* C9: once the dropdown options are built, classifiers still lists the
\* distinct values of the merged map in order of first occurrence, and the three
\* maps are as they were built.
C9_TablesNeverMutated ==
  DropdownBuilt =>
    /\ classifiers = FirstSeenClassifications
    /\ idFieldDataTypeClassification =
         ReduceIdLogicalTypes(<<>>, customIdLogicalTypes \o idLogicalTypes)
    /\ nonIdFieldDataTypeClassification =
         ReduceGenericLogicalTypes(<<>>, genericLogicalTypes)
    /\ defaultFieldDataTypeClassification =
         Spread(Spread(<<>>, idFieldDataTypeClassification),
                nonIdFieldDataTypeClassification)

\* C10: the keys of idFieldDataTypeClassification are exactly the custom id and
\* id names, those of nonIdFieldDataTypeClassification exactly the generic
\* names, and those of defaultFieldDataTypeClassification exactly their union.
C10_NoOrphanNoMissingKeys ==
  DefaultBuilt =>
    /\ Keys(idFieldDataTypeClassification) = IdNames
    /\ Keys(nonIdFieldDataTypeClassification) = GenericNames
    /\ Keys(defaultFieldDataTypeClassification) =
         Keys(idFieldDataTypeClassification)
           \cup Keys(nonIdFieldDataTypeClassification)

\* C10 witness: all three enumerations non-empty, a name shared, maps built
C10_Witness ==
  /\ DefaultBuilt
  /\ customIdLogicalTypes # <<>>
  /\ idLogicalTypes # <<>>
  /\ genericLogicalTypes # <<>>
  /\ IdNames \cap GenericNames # {}
  /\ Range(customIdLogicalTypes) \ Range(idLogicalTypes) # {}

====
